---- MODULE Spec2Model ----
(***************************************************************************)
(* Model of the magnet-to-HLS job pipeline of magfly_hls:                  *)
(*   src/src/lib/streamFromMagnet.js  (pipeline, registries, upload)       *)
(*   src/unnamed/part_001             (POST /start-stream, GET handlers)   *)
(*   src/src/index.js                 (the single-result server)           *)
(* One action is one macrotask of the Node.js event loop: an HTTP handler  *)
(* or an event callback together with the promise continuations that run   *)
(* before the next event is taken.                                         *)
(* Strings that the code inspects character by character (file names,      *)
(* magnet links, playlist lines, object names) are tuples of one-character *)
(* strings.                                                                *)
(***************************************************************************)
EXTENDS Integers, Sequences, FiniteSets, TLC

(***************************************************************************)
(* Bounds of the model.                                                    *)
(***************************************************************************)
MaxJobs == 2
MaxSegs == 2
MaxLines == 2

JobIds == 1..MaxJobs

(***************************************************************************)
(* Characters and string helpers.                                          *)
(***************************************************************************)
LowerChars == {"a","b","c","d","e","f","g","h","i","j","k","l","m",
               "n","o","p","q","r","s","t","u","v","w","x","y","z"}
UpperChars == {"A","B","C","D","E","F","G","H","I","J","K","L","M",
               "N","O","P","Q","R","S","T","U","V","W","X","Y","Z"}
DigitChars == {"0","1","2","3","4","5","6","7","8","9"}

\* \w of a JavaScript regular expression: [A-Za-z0-9_]
WordChars == LowerChars \cup UpperChars \cup DigitChars \cup {"_"}

\* the i flag of /\.(mp4|mkv|avi|mov)$/i, on the letters the extensions use
ToLowerChar(c) ==
  CASE c = "M" -> "m" [] c = "P" -> "p" [] c = "K" -> "k" [] c = "V" -> "v"
    [] c = "A" -> "a" [] c = "I" -> "i" [] c = "O" -> "o"
    [] OTHER -> c

ToLower(s) == [i \in 1..Len(s) |-> ToLowerChar(s[i])]

StartsWith(s, p) == Len(s) >= Len(p) /\ SubSeq(s, 1, Len(p)) = p

EndsWith(s, p) == Len(s) >= Len(p) /\ SubSeq(s, Len(s) - Len(p) + 1, Len(s)) = p

DigitOf(k) == <<"0","1","2","3","4","5","6","7","8","9">>[k + 1]

\* String.prototype.replace(/\W+/g, '_'): every maximal run of non-word
\* characters becomes one underscore.
RECURSIVE SanitizeFrom(_, _, _)
SanitizeFrom(s, i, inRun) ==
  IF i > Len(s) THEN <<>>
  ELSE IF s[i] \in WordChars THEN <<s[i]>> \o SanitizeFrom(s, i + 1, FALSE)
  ELSE IF inRun THEN SanitizeFrom(s, i + 1, TRUE)
  ELSE <<"_">> \o SanitizeFrom(s, i + 1, TRUE)

Sanitize(s) == SanitizeFrom(s, 1, FALSE)

\* /\.(mp4|mkv|avi|mov)$/i.test(name)
VideoExtensions == { <<".","m","p","4">>, <<".","m","k","v">>,
                     <<".","a","v","i">>, <<".","m","o","v">> }

\* Faulty variant of IsVideoFile: the pattern without its $ anchor, which finds an
\* extension anywhere in the name.
IsVideoFileUnanchored(name) ==
  \E i \in 1..Len(name) :
    /\ i + 3 <= Len(name)
    /\ ToLower(SubSeq(name, i, i + 3)) \in VideoExtensions

IsVideoFile(name) ==
  /\ Len(name) >= 4
  /\ ToLower(SubSeq(name, Len(name) - 3, Len(name))) \in VideoExtensions

\* A pattern built by new RegExp(oldName, 'g') from a file name: the dot is
\* the regular-expression wildcard (any character but a line break), every
\* other character of such a name stands for itself.
RegExpMatchesAt(text, pattern, i) ==
  /\ i + Len(pattern) - 1 <= Len(text)
  /\ \A k \in 1..Len(pattern) :
       pattern[k] = "." \/ pattern[k] = text[i + k - 1]

\* text.replace(new RegExp(pattern, 'g'), replacement): leftmost,
\* non-overlapping matches, scanning resumes after each match.
RECURSIVE RegExpReplaceFrom(_, _, _, _)
RegExpReplaceFrom(text, pattern, replacement, i) ==
  IF i > Len(text) THEN <<>>
  ELSE IF RegExpMatchesAt(text, pattern, i)
       THEN replacement
            \o RegExpReplaceFrom(text, pattern, replacement, i + Len(pattern))
       ELSE <<text[i]>> \o RegExpReplaceFrom(text, pattern, replacement, i + 1)

\* A playlist text is the sequence of its lines; a pattern made from a file
\* name never matches across a line break.
RegExpReplaceAll(lines, pattern, replacement) ==
  [n \in 1..Len(lines) |-> RegExpReplaceFrom(lines[n], pattern, replacement, 1)]

\* Object.entries(tsFileMapping).forEach(([oldName, newName]) => replace);
\* mapping is the sequence of <<oldName, newName>> in insertion order.
RECURSIVE RewriteReferences(_, _)
RewriteReferences(lines, mapping) ==
  IF mapping = <<>> THEN lines
  ELSE RewriteReferences(
         RegExpReplaceAll(lines, Head(mapping)[1], Head(mapping)[2]),
         Tail(mapping))

(***************************************************************************)
(* Data of the environment: torrents, generated names, transcoder output.  *)
(***************************************************************************)
\* 'magnet:?'
MagnetPrefix == <<"m","a","g","n","e","t",":","?">>

\* The bodies a POST /start-stream request can carry: magnet is the value of
\* req.body.magnet (<<>> when absent or empty, which JavaScript treats as
\* false), file tells whether multer found a torrentFile part.
Requests ==
  { [magnet |-> <<>>, file |-> FALSE],
    [magnet |-> MagnetPrefix \o <<"x">>, file |-> FALSE],
    [magnet |-> <<"h","t","t","p",":","x">>, file |-> FALSE],
    [magnet |-> <<>>, file |-> TRUE] }

\* File lists of the torrents the client can report.  a.mp4 and a-.mp4 are
\* different names with the same sanitized form; m.mp4.pdf carries a video
\* extension that is not at its end.
Torrents ==
  { << <<"a",".","m","p","4">>, <<"b",".","M","K","V">> >>,
    << <<"a","-",".","m","p","4">> >>,
    << <<"n",".","p","d","f">>, <<"a",".","m","p","4">> >>,
    << <<"m",".","m","p","4",".","p","d","f">> >> }

\* Twelve-character results of generateRandomUnicodeName.  The first one
\* contains the letters of a segment name.
RandomNames ==
  { <<"A","A","i","n","d","e","x","1","Q","t","s","Z">>,
    <<"k","3","V","b","9","x","P","0","q","L","m","7">> }

TsExt == <<".","t","s">>
M3u8Ext == <<".","m","3","u","8">>

\* path.join(outputDir, 'index.m3u8'): the playlist ffmpeg is told to write
IndexM3u8 == <<"i","n","d","e","x">> \o M3u8Ext

\* ffmpeg's hls muxer names the segments after the playlist: index0.ts, ...
SegName(k) == <<"i","n","d","e","x", DigitOf(k)>> \o TsExt

RECURSIVE SegLines(_, _)
SegLines(k, n) ==
  IF k >= n THEN <<>>
  ELSE << <<"#","E","X","T","I","N","F",":","1","0",",">>, SegName(k) >>
       \o SegLines(k + 1, n)

\* The playlist ffmpeg writes for n segments (-hls_list_size 0 keeps all).
Playlist(n) ==
  << <<"#","E","X","T","M","3","U">> >> \o SegLines(0, n)
  \o << <<"#","E","X","T","-","X","-","E","N","D","L","I","S","T">> >>

\* The order in which fs.readdirSync lists the files of a work directory.
ListingOrder == <<IndexM3u8>> \o [k \in 1..10 |-> SegName(k - 1)]

DirListing(files) == SelectSeq(ListingOrder, LAMBDA f : f \in files)

\* torrent.files.filter((f) => /\.(mp4|mkv|avi|mov)$/i.test(f.name))
VideoFiles(files) == SelectSeq(files, IsVideoFile)

\* path.join(ROOT_OUTPUT_DIR, `hls-output-${sanitizedFileName}`)
OutputDir(name) == <<"hls-output-">> \o Sanitize(name)

(***************************************************************************)
(* State.                                                                  *)
(***************************************************************************)
VARIABLES
  nextId,          \* number of POST /start-stream requests taken so far + 1
  request,         \* request[j]: the body of the request that drew id j
  response,        \* response[j]: what the handler answered
  pc,              \* pc[j]: where job j's pipeline is waiting
  promise,         \* promise[j]: state of the promise streamFromInput returned
  torrent,         \* torrent[j]: torrent.files (names) once the torrent is added
  fileIdx,         \* fileIdx[j]: position of the loop over videoFiles
  up,              \* up[j]: locals of the running uploadHLSFilesForVideo call
  processStatus,   \* the processStatus object
  playlistUrlsMap, \* the playlistUrlsMap object
  fsDirs,          \* work directories on the local disk
  objectStore,     \* objects stored in the bucket
  destroyCalls,    \* destroyCalls[j]: calls of wtClient.destroy made for job j
  doneFired,       \* doneFired[j]: the torrent's 'done' event has been delivered
  clientErrored,   \* clientErrored[j]: a fatal client 'error' has been delivered
  reply,           \* what the last GET /status or GET /playlist request answered
  rewrite,         \* a call of the playlist rewriting step: its input and output
  jobs,            \* the jobs object of the single-result server (src/index.js)
  jobTask          \* jobTask[i]: where the background task of that server's job i is

vars == << nextId, request, response, pc, promise, torrent, fileIdx, up,
           processStatus, playlistUrlsMap, fsDirs, objectStore, destroyCalls,
           doneFired, clientErrored, reply, rewrite, jobs, jobTask >>

\* The state of the multi-file server's pipeline.
pipeline == << nextId, request, response, pc, promise, torrent, fileIdx, up,
               processStatus, playlistUrlsMap, fsDirs, objectStore, destroyCalls,
               doneFired, clientErrored >>

\* What the handlers and callbacks of the multi-file server never touch.
outside == << rewrite, jobs, jobTask >>

\* --- status strings ------------------------------------------------------
\* A status is <<text, argument>>.
UnknownStatus == <<"Unknown ID or process not started.", <<>>>>
StTorrentAdded == <<"Torrent added. Processing video files...", <<>>>>
StDownloadComplete == <<"Torrent download complete. Processing files...", <<>>>>
StComplete == <<"Process complete.", <<>>>>
StProcessingFile(name) == <<"Processing file: ", name>>
StError(msg) == <<"Error during processing: ", msg>>
StWtError(msg) == <<"WebTorrent error: ", msg>>

\* err.message of the errors that can reach a status
MsgNoVideo == <<"No suitable video files found in the torrent.">>
MsgInvalidInput ==
  <<"Invalid input: Must be a magnet URI string or a torrent file buffer.">>
MsgNoM3u8 == <<"No .m3u8 file found after transcoding.">>
MsgFfmpeg == <<"ffmpeg exited with an error">>
MsgS3 == <<"PutObject failed">>
MsgENOENT == <<"ENOENT: no such file or directory">>
MsgWt == <<"torrent client error">>

\* --- registries ----------------------------------------------------------
\* processStatus and playlistUrlsMap are objects keyed by job id: functions
\* whose domain is the set of keys present.
EmptyObject == [x \in {} |-> <<>>]

\* Faulty variant of updateStatus: the status is logged and not stored.
updateStatusLogOnly(ps, uniqueId, status) == ps

\* Faulty variant of updateStatus: one status shared by all the jobs.
updateStatusShared(ps, uniqueId, status) ==
  [x \in DOMAIN ps \cup {uniqueId} |-> status]

updateStatus(ps, uniqueId, status) ==
  [x \in DOMAIN ps \cup {uniqueId} |-> IF x = uniqueId THEN status ELSE ps[x]]

getStatusById(uniqueId) ==
  IF uniqueId \in DOMAIN processStatus
  THEN processStatus[uniqueId]
  ELSE UnknownStatus

getPlaylistUrls(uniqueId) ==
  IF uniqueId \in DOMAIN playlistUrlsMap THEN playlistUrlsMap[uniqueId] ELSE <<>>

\* Faulty variant of PushPlaylistUrl: the list is replaced by one holding
\* the new entry only.
PushPlaylistUrlReplacing(map, uniqueId, entry) ==
  [x \in DOMAIN map \cup {uniqueId} |->
     IF x = uniqueId THEN <<entry>> ELSE map[x]]

\* playlistUrlsMap[uniqueId] = playlistUrlsMap[uniqueId] || []; then push
PushPlaylistUrl(map, uniqueId, entry) ==
  [x \in DOMAIN map \cup {uniqueId} |->
     IF x = uniqueId
     THEN (IF uniqueId \in DOMAIN map THEN map[uniqueId] ELSE <<>>) \o <<entry>>
     ELSE map[x]]

\* --- local disk ----------------------------------------------------------
DirNames == UNION { { OutputDir(t[i]) : i \in 1..Len(t) } : t \in Torrents }

\* A directory that does not exist.
NoDir == [exists |-> FALSE, creator |-> 0, files |-> {}, m3u8 |-> <<>>]

\* if (!fs.existsSync(outputDir)) fs.mkdirSync(outputDir, { recursive: true })
\* creator remembers which job's call made the directory.
MkdirIfAbsent(dirs, d, j) ==
  IF dirs[d].exists THEN dirs
  ELSE [dirs EXCEPT ![d] = [exists |-> TRUE, creator |-> j, files |-> {}, m3u8 |-> <<>>]]

\* Faulty variant of cleanup: the directory is left in place.
cleanupSkipped(dirs, d) == dirs

\* if (fs.existsSync(outputDir)) fs.rmSync(outputDir, {recursive, force})
cleanup(dirs, d) == [dirs EXCEPT ![d] = NoDir]

\* ffmpeg has written index.m3u8 and n segments into directory d
WriteHls(dirs, d, n) ==
  [dirs EXCEPT ![d].files = @ \cup {IndexM3u8} \cup { SegName(k) : k \in 0..(n - 1) },
               ![d].m3u8 = Playlist(n)]

\* fs.writeFileSync(m3u8FilePath, m3u8Content) into an existing directory
WriteM3u8(dirs, d, content) ==
  [dirs EXCEPT ![d].files = @ \cup {IndexM3u8}, ![d].m3u8 = content]

\* --- object store --------------------------------------------------------
\* s3.send(new PutObjectCommand({Bucket, Key, Body, ContentType})) succeeded:
\* the object under the key is created or replaced.
PutObject(store, key, contentType, body) ==
  { o \in store : o.key # key }
    \cup { [key |-> key, contentType |-> contentType, body |-> body] }

\* `https://neko-minio.b1pohl.easypanel.host/${BUCKET_NAME}/${m3u8Key}`
PlaylistUrl(uniqueId, name) ==
  [base |-> "https://neko-minio.b1pohl.easypanel.host", bucket |-> "hls",
   id |-> uniqueId, name |-> name]

\* --- pipeline helpers ----------------------------------------------------
\* Locals of uploadHLSFilesForVideo while it is not running.
NoUpload == [files |-> <<>>, m3u8File |-> <<>>, m3u8Content |-> <<>>,
             tsFiles |-> <<>>, uploadedFiles |-> 0, mapping |-> <<>>,
             name |-> <<>>]

CurrentFile(j) == VideoFiles(torrent[j])[fileIdx[j]]

CurrentDir(j) == OutputDir(CurrentFile(j))

\* reject(err) / resolve(value) of the promise made in streamFromInput: only
\* the first call settles it.
Settle(p, j, how) == [p EXCEPT ![j] = IF @ = "pending" THEN how ELSE @]

\* The job's pipeline is between the torrent-added callback and its end.
Processing == {"transcoding", "uploadingTs", "uploadingM3u8"}

\* resolveInput(input): TRUE when it returns the input, FALSE when it throws
resolveInput(input) ==
  \/ input.type = "string" /\ StartsWith(input.text, MagnetPrefix)
  \/ input.type = "buffer"

\* The catch block of the torrent-added callback, reached by an error thrown
\* in processTorrentFiles: destroy the client, set the status, reject.  When
\* this rejection settles the promise, the .catch of the POST handler runs
\* next and sets the same status again.
FailJob(j, msg, dirs, ps) ==
  /\ destroyCalls' = [destroyCalls EXCEPT ![j] = @ + 1]
  /\ processStatus' =
       LET inner == updateStatus(ps, j, StError(msg))
       IN  IF promise[j] = "pending" THEN updateStatus(inner, j, StError(msg)) ELSE inner
  /\ promise' = Settle(promise, j, "rejected")
  /\ pc' = [pc EXCEPT ![j] = "failed"]
  /\ fsDirs' = dirs
  /\ up' = [up EXCEPT ![j] = NoUpload]
  /\ UNCHANGED fileIdx

\* One iteration of the for loop of processTorrentFiles up to the await:
\* make the work directory, set the status, start ffmpeg.
StartFile(j, videoFiles, idx, dirs, ps) ==
  LET name == videoFiles[idx]
  IN  /\ fsDirs' = MkdirIfAbsent(dirs, OutputDir(name), j)
      /\ processStatus' = updateStatus(ps, j, StProcessingFile(name))
      /\ pc' = [pc EXCEPT ![j] = "transcoding"]
      /\ fileIdx' = [fileIdx EXCEPT ![j] = idx]
      /\ up' = [up EXCEPT ![j] = NoUpload]
      /\ UNCHANGED << destroyCalls, promise >>

\* processTorrentFiles returned: destroy the client, 'Process complete.',
\* resolve.
CompleteJob(j, dirs, ps) ==
  /\ destroyCalls' = [destroyCalls EXCEPT ![j] = @ + 1]
  /\ processStatus' = updateStatus(ps, j, StComplete)
  /\ promise' = Settle(promise, j, "resolved")
  /\ pc' = [pc EXCEPT ![j] = "returned"]
  /\ fsDirs' = dirs
  /\ up' = [up EXCEPT ![j] = NoUpload]
  /\ UNCHANGED fileIdx

\* The loop after a file's promise resolved: the next file, or the return.
NextFile(j, dirs, ps) ==
  IF fileIdx[j] < Len(VideoFiles(torrent[j]))
  THEN StartFile(j, VideoFiles(torrent[j]), fileIdx[j] + 1, dirs, ps)
  ELSE CompleteJob(j, dirs, ps)

\* The pipeline waits for an upload to settle.
AwaitUpload(j, where, u, dirs) ==
  /\ pc' = [pc EXCEPT ![j] = where]
  /\ up' = [up EXCEPT ![j] = u]
  /\ fsDirs' = dirs
  /\ UNCHANGED << processStatus, promise, destroyCalls, fileIdx >>

\* uploadHLSFilesForVideo from the top of the segment loop to its next await:
\* start the next segment's upload under a fresh name, or, after the last
\* segment, rewrite the playlist, write it back and start its upload.  An
\* error thrown on the way is caught by the 'end' handler, which cleans up
\* and rejects.
BeginNextUpload(j, u, dirs, rnd) ==
  LET d == CurrentDir(j)
  IN  IF Len(u.mapping) < Len(u.tsFiles)
      THEN AwaitUpload(j, "uploadingTs", [u EXCEPT !.name = rnd \o TsExt], dirs)
      ELSE LET content == RewriteReferences(u.m3u8Content, u.mapping)
           IN  IF dirs[d].exists
               THEN AwaitUpload(j, "uploadingM3u8",
                                [u EXCEPT !.m3u8Content = content,
                                          !.name = rnd \o M3u8Ext],
                                WriteM3u8(dirs, d, content))
               ELSE FailJob(j, MsgENOENT, cleanup(dirs, d), processStatus)

\* --- GET /status/:uuid and GET /playlist/:uuid -----------------------------
\* The values req.params.uuid can take: an id that randomUUID can draw, or
\* the name of a member that every object inherits from Object.prototype.
RouteParams ==
  { [kind |-> "uuid", uuid |-> j, text |-> ""] : j \in JobIds }
    \cup { [kind |-> "property", uuid |-> 0, text |-> "constructor"] }

\* No GET request was answered by the step just taken.
NoReply == [route |-> "none", param |-> [kind |-> "none", uuid |-> 0, text |-> ""],
            code |-> "", inherited |-> FALSE, status |-> <<"", <<>>>>,
            playlistUrls |-> <<>>]

\* processStatus[uniqueId] of the object literal {}: for the name of an
\* inherited member the lookup finds that member, the function Object, which
\* is truthy, so that the || alternative is not taken.
InheritedMember == <<"function Object", <<>>>>

\* --- a call of the playlist rewriting step on any text --------------------
\* No call of the rewriting step.
NoRewrite == [text |-> <<>>, mapping |-> <<>>, done |-> FALSE, out |-> <<>>]

\* Lines a playlist text can hold: a segment name, a tag, a name that
\* differs from a segment name where that name has its dot, and an uploaded
\* object's name.
RewriteLines ==
  { SegName(0),
    <<"#","E","X","T","I","N","F",":","1","0",",">>,
    <<"i","n","d","e","x","0","-","t","s">>,
    <<"A","A","i","n","d","e","x","1","Q","t","s","Z">> \o TsExt }

RewriteTexts == UNION { [1..n -> RewriteLines] : n \in 1..MaxLines }

\* tsFileMapping: old segment names, each once, in insertion order, with the
\* generated names.
RewriteMappings ==
  LET olds == { SegName(0), SegName(1) }
      news == { rnd \o TsExt : rnd \in RandomNames }
  IN  { <<>> }
        \cup { << <<o, n>> >> : o \in olds, n \in news }
        \cup { m \in { << <<o1, n1>>, <<o2, n2>> >> :
                        o1 \in olds, o2 \in olds, n1 \in news, n2 \in news } :
                 m[1][1] # m[2][1] }

\* --- the single-result server (src/index.js) -----------------------------
\* jobs[jobId] = { status: 'Processing', link: null }
ProcessingJob == [status |-> "Processing", link |-> "null", message |-> ""]

\* jobs[jobId] = { status: 'Done', link: playlistUrl }
DoneJob(playlistUrl) == [status |-> "Done", link |-> playlistUrl, message |-> ""]

\* jobs[jobId] = { status: 'Error', link: null, message: err.message }
ErrorJob(message) == [status |-> "Error", link |-> "null", message |-> message]

\* What the promise of streamFromMagnet(magnet) resolves to: an object with
\* the URL of the one playlist of the job.
StreamResults ==
  { [playlistUrl |-> "https://host/hls/a/index.m3u8"],
    [playlistUrl |-> "https://host/hls/b/index.m3u8"] }

\* err.message of a rejection; an error can have the empty message.
StreamErrors == { "", "No video file found" }

(***************************************************************************)
(* Initial state: no request taken, empty registries, disk and bucket.     *)
(***************************************************************************)
InitPipeline ==
  /\ nextId = 1
  /\ request = [j \in JobIds |-> [magnet |-> <<>>, file |-> FALSE]]
  /\ response = [j \in JobIds |-> <<"none", 0>>]
  /\ pc = [j \in JobIds |-> "idle"]
  /\ promise = [j \in JobIds |-> "none"]
  /\ torrent = [j \in JobIds |-> <<>>]
  /\ fileIdx = [j \in JobIds |-> 0]
  /\ up = [j \in JobIds |-> NoUpload]
  /\ processStatus = EmptyObject
  /\ playlistUrlsMap = EmptyObject
  /\ fsDirs = [d \in DirNames |-> NoDir]
  /\ objectStore = {}
  /\ destroyCalls = [j \in JobIds |-> 0]
  /\ doneFired = [j \in JobIds |-> FALSE]
  /\ clientErrored = [j \in JobIds |-> FALSE]
  /\ reply = NoReply

Init ==
  /\ InitPipeline
  /\ rewrite = NoRewrite
  /\ jobs = EmptyObject
  /\ jobTask = [i \in JobIds |-> "idle"]

(***************************************************************************)
(* Actions.                                                                *)
(***************************************************************************)
\* Faulty variant of StartStream: a handler that awaits streamFromInput before it
\* answers, so that an accepted request has no answer while the job runs.
StartStreamAwaiting(req, fsBound, limit) ==
  LET j == nextId
      input == IF req.magnet # <<>>
               THEN [type |-> "string", text |-> req.magnet]
               ELSE [type |-> "buffer", text |-> <<>>]
  IN  /\ nextId <= limit
      /\ nextId' = nextId + 1
      /\ request' = [request EXCEPT ![j] = req]
      /\ IF req.magnet = <<>> /\ ~req.file
         THEN /\ response' = [response EXCEPT ![j] = <<"400", 0>>]
              /\ pc' = [pc EXCEPT ![j] = "refused"]
              /\ UNCHANGED << promise, processStatus >>
         ELSE IF req.magnet = <<>> /\ ~fsBound
         THEN /\ response' = [response EXCEPT ![j] = <<"500", j>>]
              /\ pc' = [pc EXCEPT ![j] = "refused"]
              /\ UNCHANGED << promise, processStatus >>
         ELSE /\ UNCHANGED response
              /\ IF resolveInput(input)
                 THEN /\ pc' = [pc EXCEPT ![j] = "adding"]
                      /\ promise' = [promise EXCEPT ![j] = "pending"]
                      /\ UNCHANGED processStatus
                 ELSE /\ pc' = [pc EXCEPT ![j] = "invalid"]
                      /\ promise' = [promise EXCEPT ![j] = "rejected"]
                      /\ processStatus' =
                           updateStatus(processStatus, j, StError(MsgInvalidInput))
      /\ UNCHANGED << torrent, fileIdx, up, playlistUrlsMap, fsDirs, objectStore,
                      destroyCalls, doneFired, clientErrored, outside >>
      /\ reply' = NoReply

\* POST /start-stream.  The id comes from randomUUID(); the j-th request
\* draws id j, and the environment sends at most limit requests.  Without a
\* magnet value and without a file the handler answers 400.  The file branch
\* reads the upload through the name fs, which the handler's file does not
\* import: fsBound tells whether the name is bound where the server runs; if
\* it is not, the read throws and the handler's catch block answers 500.
\* Otherwise the handler answers {uniqueId} and then calls streamFromInput,
\* which runs to its first external wait: resolveInput, new WebTorrent,
\* wtClient.add.  When resolveInput throws, the returned promise rejects and
\* the handler's .catch sets the status.
StartStream(req, fsBound, limit) ==
  LET j == nextId
      input == IF req.magnet # <<>>
               THEN [type |-> "string", text |-> req.magnet]
               ELSE [type |-> "buffer", text |-> <<>>]
  IN  /\ nextId <= limit
      /\ nextId' = nextId + 1
      /\ request' = [request EXCEPT ![j] = req]
      /\ IF req.magnet = <<>> /\ ~req.file
         THEN /\ response' = [response EXCEPT ![j] = <<"400", 0>>]
              /\ pc' = [pc EXCEPT ![j] = "refused"]
              /\ UNCHANGED << promise, processStatus >>
         ELSE IF req.magnet = <<>> /\ ~fsBound
         THEN /\ response' = [response EXCEPT ![j] = <<"500", j>>]
              /\ pc' = [pc EXCEPT ![j] = "refused"]
              /\ UNCHANGED << promise, processStatus >>
         ELSE /\ response' = [response EXCEPT ![j] = <<"200", j>>]
              /\ IF resolveInput(input)
                 THEN /\ pc' = [pc EXCEPT ![j] = "adding"]
                      /\ promise' = [promise EXCEPT ![j] = "pending"]
                      /\ UNCHANGED processStatus
                 ELSE /\ pc' = [pc EXCEPT ![j] = "invalid"]
                      /\ promise' = [promise EXCEPT ![j] = "rejected"]
                      /\ processStatus' =
                           updateStatus(processStatus, j, StError(MsgInvalidInput))
      /\ UNCHANGED << torrent, fileIdx, up, playlistUrlsMap, fsDirs, objectStore,
                      destroyCalls, doneFired, clientErrored, outside >>
      /\ reply' = NoReply

\* The callback of wtClient.add: the torrent is ready and lists files t.
TorrentAdded(j, t) ==
  /\ pc[j] = "adding"
  /\ torrent' = [torrent EXCEPT ![j] = t]
  /\ LET ps == updateStatus(processStatus, j, StTorrentAdded)
     IN  IF Len(VideoFiles(t)) = 0
         THEN FailJob(j, MsgNoVideo, fsDirs, ps)
         ELSE StartFile(j, VideoFiles(t), 1, fsDirs, ps)
  /\ UNCHANGED << nextId, request, response, playlistUrlsMap, objectStore,
                  doneFired, clientErrored, outside >>
  /\ reply' = NoReply

\* torrent.on('done'): the download finished while files are processed.
TorrentDone(j) ==
  /\ pc[j] \in Processing
  /\ ~doneFired[j]
  /\ ~clientErrored[j]
  /\ doneFired' = [doneFired EXCEPT ![j] = TRUE]
  /\ processStatus' = updateStatus(processStatus, j, StDownloadComplete)
  /\ UNCHANGED << nextId, request, response, pc, promise, torrent, fileIdx, up,
                  playlistUrlsMap, fsDirs, objectStore, destroyCalls, clientErrored, outside >>
  /\ reply' = NoReply

\* wtClient.on('error').  A UTP connection reset is only logged.  Any other
\* error sets the status and rejects; the rejection runs the POST handler's
\* .catch, which sets the status again.  The client delivers a fatal error
\* once and, when the torrent was not yet added, never calls the add
\* callback afterwards.  The handler neither destroys the client nor stops
\* a pipeline that is running.
ClientError(j, code) ==
  /\ pc[j] \in {"adding"} \cup Processing
  /\ ~clientErrored[j]
  /\ IF code = "UTP_ECONNRESET"
     THEN UNCHANGED << processStatus, promise, pc, clientErrored >>
     ELSE /\ processStatus' =
               LET ps == updateStatus(processStatus, j, StWtError(MsgWt))
               IN  IF promise[j] = "pending"
                   THEN updateStatus(ps, j, StError(MsgWt))
                   ELSE ps
          /\ promise' = Settle(promise, j, "rejected")
          /\ pc' = [pc EXCEPT ![j] = IF @ = "adding" THEN "errored" ELSE @]
          /\ clientErrored' = [clientErrored EXCEPT ![j] = TRUE]
  /\ UNCHANGED << nextId, request, response, torrent, fileIdx, up,
                  playlistUrlsMap, fsDirs, objectStore, destroyCalls, doneFired, outside >>
  /\ reply' = NoReply

\* ffmpeg's 'end' event for the current file: n segments and the playlist
\* are in the work directory.  The handler calls uploadHLSFilesForVideo,
\* which lists the directory, reads the playlist and starts the first upload.
FfmpegEnd(j, n, rnd) ==
  /\ pc[j] = "transcoding"
  /\ fsDirs[CurrentDir(j)].exists
  /\ LET d == CurrentDir(j)
         dirs == WriteHls(fsDirs, d, n)
         files == DirListing(dirs[d].files)
         m3u8s == SelectSeq(files, LAMBDA f : EndsWith(f, M3u8Ext))
         u == [files |-> files,
               m3u8File |-> IF m3u8s = <<>> THEN <<>> ELSE Head(m3u8s),
               m3u8Content |-> dirs[d].m3u8,
               tsFiles |-> SelectSeq(files, LAMBDA f : EndsWith(f, TsExt)),
               uploadedFiles |-> 0, mapping |-> <<>>, name |-> <<>>]
     IN  IF m3u8s = <<>>
         THEN FailJob(j, MsgNoM3u8, cleanup(dirs, d), processStatus)
         ELSE BeginNextUpload(j, u, dirs, rnd)
  /\ UNCHANGED << nextId, request, response, torrent, playlistUrlsMap,
                  objectStore, doneFired, clientErrored, outside >>
  /\ reply' = NoReply

\* Faulty variant of FfmpegError: the handler cleans up and does not reject,
\* so that the await of the loop never ends.
FfmpegErrorSwallowed(j) ==
  /\ pc[j] = "transcoding"
  /\ fsDirs' = cleanup(fsDirs, CurrentDir(j))
  /\ UNCHANGED << nextId, request, response, pc, promise, torrent, fileIdx, up,
                  processStatus, playlistUrlsMap, objectStore, destroyCalls,
                  doneFired, clientErrored, outside >>
  /\ reply' = NoReply

\* ffmpeg's 'error' event for the current file: cleanup, reject.
FfmpegError(j) ==
  /\ pc[j] = "transcoding"
  /\ FailJob(j, MsgFfmpeg, cleanup(fsDirs, CurrentDir(j)), processStatus)
  /\ UNCHANGED << nextId, request, response, torrent, playlistUrlsMap,
                  objectStore, doneFired, clientErrored, outside >>
  /\ reply' = NoReply

\* Faulty variant of UploadTs: a failed upload removes the objects the job
\* has stored so far.
UploadTsRollback(j, ok, rnd) ==
  /\ pc[j] = "uploadingTs"
  /\ LET d == CurrentDir(j)
         u == up[j]
         tsFile == u.tsFiles[Len(u.mapping) + 1]
         onDisk == fsDirs[d].exists /\ tsFile \in fsDirs[d].files
     IN  /\ ok => onDisk
         /\ IF ok
            THEN /\ objectStore' =
                      PutObject(objectStore, <<j, u.name>>, "video/mp2t", <<tsFile>>)
                 /\ BeginNextUpload(
                      j,
                      [u EXCEPT !.uploadedFiles = @ + 1,
                                !.mapping = Append(@, <<tsFile, u.name>>)],
                      fsDirs, rnd)
            ELSE /\ objectStore' = { o \in objectStore : o.key[1] # j }
                 /\ FailJob(j, IF onDisk THEN MsgS3 ELSE MsgENOENT,
                            cleanup(fsDirs, d), processStatus)
  /\ UNCHANGED << nextId, request, response, torrent, playlistUrlsMap,
                  doneFired, clientErrored, outside >>
  /\ reply' = NoReply

\* The upload of the current segment settles.  It can succeed only if the
\* segment file is still on disk.
UploadTs(j, ok, rnd) ==
  /\ pc[j] = "uploadingTs"
  /\ LET d == CurrentDir(j)
         u == up[j]
         tsFile == u.tsFiles[Len(u.mapping) + 1]
         onDisk == fsDirs[d].exists /\ tsFile \in fsDirs[d].files
     IN  /\ ok => onDisk
         /\ IF ok
            THEN /\ objectStore' =
                      PutObject(objectStore, <<j, u.name>>, "video/mp2t", <<tsFile>>)
                 /\ BeginNextUpload(
                      j,
                      [u EXCEPT !.uploadedFiles = @ + 1,
                                !.mapping = Append(@, <<tsFile, u.name>>)],
                      fsDirs, rnd)
            ELSE /\ UNCHANGED objectStore
                 /\ FailJob(j, IF onDisk THEN MsgS3 ELSE MsgENOENT,
                            cleanup(fsDirs, d), processStatus)
  /\ UNCHANGED << nextId, request, response, torrent, playlistUrlsMap,
                  doneFired, clientErrored, outside >>
  /\ reply' = NoReply

\* Faulty variant of UploadM3u8: the result is pushed before the upload is
\* awaited, so that it is in the list also when the upload fails.
UploadM3u8PushFirst(j, ok) ==
  /\ pc[j] = "uploadingM3u8"
  /\ LET d == CurrentDir(j)
         u == up[j]
         onDisk == fsDirs[d].exists /\ IndexM3u8 \in fsDirs[d].files
     IN  /\ ok => onDisk
         /\ playlistUrlsMap' =
              PushPlaylistUrl(playlistUrlsMap, j,
                              [playlistUrl |-> PlaylistUrl(j, u.name),
                               fileName |-> u.m3u8File])
         /\ IF ok
            THEN /\ objectStore' =
                      PutObject(objectStore, <<j, u.name>>,
                                "application/vnd.apple.mpegurl", fsDirs[d].m3u8)
                 /\ NextFile(j, cleanup(fsDirs, d), processStatus)
            ELSE /\ UNCHANGED objectStore
                 /\ FailJob(j, IF onDisk THEN MsgS3 ELSE MsgENOENT,
                            cleanup(fsDirs, d), processStatus)
  /\ UNCHANGED << nextId, request, response, torrent, doneFired, clientErrored, outside >>
  /\ reply' = NoReply

\* The upload of the playlist settles.  On success the result is pushed on
\* the job's list, the 'end' handler cleans up and resolves, and the loop of
\* processTorrentFiles goes on.
UploadM3u8(j, ok) ==
  /\ pc[j] = "uploadingM3u8"
  /\ LET d == CurrentDir(j)
         u == up[j]
         onDisk == fsDirs[d].exists /\ IndexM3u8 \in fsDirs[d].files
     IN  /\ ok => onDisk
         /\ IF ok
            THEN /\ objectStore' =
                      PutObject(objectStore, <<j, u.name>>,
                                "application/vnd.apple.mpegurl", fsDirs[d].m3u8)
                 /\ playlistUrlsMap' =
                      PushPlaylistUrl(playlistUrlsMap, j,
                                      [playlistUrl |-> PlaylistUrl(j, u.name),
                                       fileName |-> u.m3u8File])
                 /\ NextFile(j, cleanup(fsDirs, d), processStatus)
            ELSE /\ UNCHANGED << objectStore, playlistUrlsMap >>
                 /\ FailJob(j, IF onDisk THEN MsgS3 ELSE MsgENOENT,
                            cleanup(fsDirs, d), processStatus)
  /\ UNCHANGED << nextId, request, response, torrent, doneFired, clientErrored, outside >>
  /\ reply' = NoReply

\* GET /status/:uuid answers {uniqueId, status} with getStatusById's result.
GetStatus(p) ==
  /\ reply' = [route |-> "status", param |-> p, code |-> "200",
               inherited |-> p.kind = "property",
               status |-> IF p.kind = "uuid" THEN getStatusById(p.uuid)
                          ELSE InheritedMember,
               playlistUrls |-> <<>>]
  /\ UNCHANGED << pipeline, outside >>

\* GET /playlist/:uuid answers 404 when getPlaylistUrls' result is falsy or
\* has length 0, else {uniqueId, playlistUrls}.  The function Object has
\* length 1.
GetPlaylist(p) ==
  /\ reply' = [route |-> "playlist", param |-> p,
               code |-> IF p.kind = "uuid" /\ getPlaylistUrls(p.uuid) = <<>>
                        THEN "404" ELSE "200",
               inherited |-> p.kind = "property",
               status |-> <<"", <<>>>>,
               playlistUrls |-> IF p.kind = "uuid" THEN getPlaylistUrls(p.uuid)
                                ELSE <<>>]
  /\ UNCHANGED << pipeline, outside >>

\* m3u8Content after the forEach over Object.entries(tsFileMapping), for an
\* input text and mapping.
RewritePlaylist ==
  /\ ~rewrite.done
  /\ rewrite' = [rewrite EXCEPT !.done = TRUE,
                                !.out = RewriteReferences(rewrite.text, rewrite.mapping)]
  /\ UNCHANGED << pipeline, reply, jobs, jobTask >>

\* GET /start-stream?magnet= of the single-result server: 400 without a
\* magnet value; else a fresh job id, the Processing record, the background
\* task up to its await, and the answer {id}.
StartJob(magnet) ==
  LET i == Cardinality(DOMAIN jobs) + 1
  IN  /\ i \in JobIds
      /\ IF magnet = <<>>
         THEN /\ reply' = [NoReply EXCEPT !.route = "start", !.code = "400"]
              /\ UNCHANGED << jobs, jobTask >>
         ELSE /\ jobs' = updateStatus(jobs, i, ProcessingJob)
              /\ jobTask' = [jobTask EXCEPT ![i] = "awaiting"]
              /\ reply' = [NoReply EXCEPT !.route = "start", !.code = "200",
                                          !.param.kind = "uuid", !.param.uuid = i]
      /\ UNCHANGED << nextId, request, response, pc, promise, torrent, fileIdx, up,
                      processStatus, playlistUrlsMap, fsDirs, objectStore,
                      destroyCalls, doneFired, clientErrored, rewrite >>

\* The promise of streamFromMagnet resolved: the task takes playlistUrl from
\* the result and writes the Done record.
JobResolved(i, result) ==
  /\ jobTask[i] = "awaiting"
  /\ jobs' = updateStatus(jobs, i, DoneJob(result.playlistUrl))
  /\ jobTask' = [jobTask EXCEPT ![i] = "ended"]
  /\ reply' = NoReply
  /\ UNCHANGED << nextId, request, response, pc, promise, torrent, fileIdx, up,
                  processStatus, playlistUrlsMap, fsDirs, objectStore,
                  destroyCalls, doneFired, clientErrored, rewrite >>

\* The promise of streamFromMagnet rejected: the catch block writes the
\* Error record.
JobRejected(i, message) ==
  /\ jobTask[i] = "awaiting"
  /\ jobs' = updateStatus(jobs, i, ErrorJob(message))
  /\ jobTask' = [jobTask EXCEPT ![i] = "ended"]
  /\ reply' = NoReply
  /\ UNCHANGED << nextId, request, response, pc, promise, torrent, fileIdx, up,
                  processStatus, playlistUrlsMap, fsDirs, objectStore,
                  destroyCalls, doneFired, clientErrored, rewrite >>

\* GET /status?id= of the single-result server.  jobs is the object literal
\* {}: for the name of an inherited member jobs[id] is that member, which is
\* truthy and has no status, so that no branch answers the request.
GetJobStatus(p) ==
  /\ reply' =
       IF p.kind = "property"
       THEN [NoReply EXCEPT !.route = "jobstatus", !.param = p,
                            !.code = "unanswered", !.inherited = TRUE]
       ELSE IF p.uuid \notin DOMAIN jobs
       THEN [NoReply EXCEPT !.route = "jobstatus", !.param = p, !.code = "404"]
       ELSE LET job == jobs[p.uuid]
            IN  [NoReply EXCEPT
                   !.route = "jobstatus", !.param = p, !.code = "200",
                   !.status =
                     CASE job.status = "Processing" -> <<"Processing", <<>>>>
                       [] job.status = "Done" -> <<"Done", <<job.link>>>>
                       [] OTHER ->
                            <<"Error",
                              <<IF job.message # "" THEN job.message
                                ELSE "Something went wrong during processing.">>>>]
  /\ UNCHANGED << pipeline, outside >>

\* The GET requests of the environment.
Reads ==
  \/ \E p \in RouteParams : GetStatus(p)
  \/ \E p \in RouteParams : GetPlaylist(p)

\* The steps of the system in an environment that sends at most limit
\* requests with bodies from requests, whose torrents list files from
\* torrents, whose transcoder writes a number of segments from segs and
\* whose name generator draws from names.
Step(limit, requests, torrents, segs, names) ==
  \/ \E req \in requests, fsBound \in BOOLEAN : StartStream(req, fsBound, limit)
  \/ \E j \in JobIds, t \in torrents : TorrentAdded(j, t)
  \/ \E j \in JobIds : TorrentDone(j)
  \/ \E j \in JobIds, code \in {"UTP_ECONNRESET", "ERR"} : ClientError(j, code)
  \/ \E j \in JobIds, n \in segs, rnd \in names : FfmpegEnd(j, n, rnd)
  \/ \E j \in JobIds : FfmpegError(j)
  \/ \E j \in JobIds, ok \in BOOLEAN, rnd \in names : UploadTs(j, ok, rnd)
  \/ \E j \in JobIds, ok \in BOOLEAN : UploadM3u8(j, ok)

\* One job in isolation, in the full environment.
Next == Step(1, Requests, Torrents, 1..MaxSegs, RandomNames)

Spec == Init /\ [][Next]_vars

\* The events that end an external call of job j: the torrent is added, a
\* transcode ends or fails, an upload settles.
Progress(j) ==
  \/ \E t \in Torrents : TorrentAdded(j, t)
  \/ \E n \in 1..MaxSegs, rnd \in RandomNames : FfmpegEnd(j, n, rnd)
  \/ FfmpegError(j)
  \/ \E ok \in BOOLEAN, rnd \in RandomNames : UploadTs(j, ok, rnd)
  \/ \E ok \in BOOLEAN : UploadM3u8(j, ok)

\* Every external call that is under way eventually produces one of its
\* events.
Fairness == \A j \in JobIds : WF_vars(Progress(j))

SpecLive == Init /\ [][Next]_vars /\ Fairness

\* One job and the GET requests of its pollers.
NextPolled == Next \/ Reads

SpecPolled == Init /\ [][NextPolled]_vars

\* MaxJobs jobs running concurrently.  Every request is a magnet link, the
\* torrents hold one video file each, under two different names with the same
\* sanitized form, and are transcoded to one segment.
ConcurrentRequests == { r \in Requests : StartsWith(r.magnet, MagnetPrefix) }

ConcurrentTorrents ==
  { << <<"a",".","m","p","4">> >>, << <<"a","-",".","m","p","4">> >> }

ConcurrentNames == { <<"k","3","V","b","9","x","P","0","q","L","m","7">> }

NextConcurrent ==
  Step(MaxJobs, ConcurrentRequests, ConcurrentTorrents, {1}, ConcurrentNames)

SpecConcurrent == Init /\ [][NextConcurrent]_vars

\* The rewriting step applied once to any of the texts and mappings.
InitRewrite ==
  /\ InitPipeline
  /\ rewrite \in { [NoRewrite EXCEPT !.text = t, !.mapping = m] :
                      t \in RewriteTexts, m \in RewriteMappings }
  /\ jobs = EmptyObject
  /\ jobTask = [i \in JobIds |-> "idle"]

NextRewrite == RewritePlaylist

SpecRewrite == InitRewrite /\ [][NextRewrite]_vars

\* The single-result server.
NextJobMap ==
  \/ \E magnet \in { r.magnet : r \in Requests } : StartJob(magnet)
  \/ \E i \in JobIds, result \in StreamResults : JobResolved(i, result)
  \/ \E i \in JobIds, message \in StreamErrors : JobRejected(i, message)
  \/ \E p \in RouteParams : GetJobStatus(p)

SpecJobMap == Init /\ [][NextJobMap]_vars

(***************************************************************************)
(* Vocabulary of the claims.                                               *)
(***************************************************************************)
IsFailure(status) ==
  status[1] \in {"Error during processing: ", "WebTorrent error: "}

IsTerminal(status) == status = StComplete \/ IsFailure(status)

\* The handler answered request j with its job id.
Issued(j) == response[j] = <<"200", j>>

\* The torrent-added callback of job j has run.
Added(j) == torrent[j] # <<>>

\* The torrent-added callback of job j has run to its end.
Concluded(j) == pc[j] \in {"returned", "failed"}

\* A name with one of the four video extensions at its end, in any case.
HasVideoExtension(name) == \E e \in VideoExtensions : EndsWith(ToLower(name), e)

QualifyingCount(files) ==
  Cardinality({ i \in 1..Len(files) : HasVideoExtension(files[i]) })

\* A magnet link, or a torrent file and no magnet value.
ValidInput(req) ==
  \/ StartsWith(req.magnet, MagnetPrefix)
  \/ req.magnet = <<>> /\ req.file

\* The segment references of a playlist text: its lines that are not tags.
Referenced(lines) ==
  { lines[n] : n \in { m \in 1..Len(lines) : lines[m] # <<>> /\ lines[m][1] # "#" } }

\* Job j's bucket holds a segment under this name.
SegmentStored(j, name) ==
  \E o \in objectStore : o.key = <<j, name>> /\ o.contentType = "video/mp2t"

\* A job's bucket holds a playlist under this name.
PlaylistStored(j, name) ==
  \E o \in objectStore :
    o.key = <<j, name>> /\ o.contentType = "application/vnd.apple.mpegurl"

IsPrefix(s, t) == Len(s) <= Len(t) /\ SubSeq(t, 1, Len(s)) = s

\* The route parameter is not the id of an accepted job.
NeverIssued(p) == p.kind = "property" \/ ~Issued(p.uuid)

\* The name occurs, character for character, in a line of the text.
OccursLiterally(lines, name) ==
  \E n \in 1..Len(lines) :
    \E i \in 1..Len(lines[n]) :
      /\ i + Len(name) - 1 <= Len(lines[n])
      /\ SubSeq(lines[n], i, i + Len(name) - 1) = name

\* The step is a step of job j among the concurrent jobs: the request that
\* draws id j, or a callback of j's pipeline.
StepOfJob(j) ==
  \/ nextId = j /\ \E req \in ConcurrentRequests, fsBound \in BOOLEAN :
                     StartStream(req, fsBound, MaxJobs)
  \/ \E t \in ConcurrentTorrents : TorrentAdded(j, t)
  \/ TorrentDone(j)
  \/ \E code \in {"UTP_ECONNRESET", "ERR"} : ClientError(j, code)
  \/ \E rnd \in ConcurrentNames : FfmpegEnd(j, 1, rnd)
  \/ FfmpegError(j)
  \/ \E ok \in BOOLEAN, rnd \in ConcurrentNames : UploadTs(j, ok, rnd)
  \/ \E ok \in BOOLEAN : UploadM3u8(j, ok)

\* The objects stored under job j's key prefix.
ObjectsOf(j) == { o \in objectStore : o.key[1] = j }

Uploading == {"uploadingTs", "uploadingM3u8"}

(***************************************************************************)
(* Claims.                                                                 *)
(***************************************************************************)

\* C1 (as claimed): when the pipeline of a job whose torrent held N >= 1
\* video files has concluded without a fatal client error, every one of the
\* N files was attempted and the status is 'Process complete.', whatever
\* files failed at transcode or upload.
C1_PartialFailureIsolation ==
  \A j \in JobIds :
    (Concluded(j) /\ ~clientErrored[j] /\ QualifyingCount(torrent[j]) >= 1)
      => /\ fileIdx[j] = QualifyingCount(torrent[j])
         /\ getStatusById(j) = StComplete

\* C2 (as claimed): while a job's status is terminal, no work directory made
\* by that job exists on the local disk.
C2_CleanupInvariant ==
  \A j \in JobIds :
    IsTerminal(getStatusById(j))
      => \A d \in DirNames : ~(fsDirs[d].exists /\ fsDirs[d].creator = j)

\* C3 (as claimed): two jobs that are transcoding or uploading at the same
\* time never use the same work directory.
C3_WorkDirectoryExclusive ==
  \A j, k \in JobIds :
    (j # k /\ pc[j] \in Processing /\ pc[k] \in Processing)
      => CurrentDir(j) # CurrentDir(k)

\* C4 (as claimed): while a playlist upload is in flight every segment of the
\* artifact has been uploaded and every segment name the rewritten playlist
\* refers to is stored under the job's prefix; and every playlist a result
\* points to refers only to stored segments.
C4_UploadOrdering ==
  \A j \in JobIds :
    /\ pc[j] = "uploadingM3u8"
         => /\ Len(up[j].mapping) = Len(up[j].tsFiles)
            /\ \A name \in Referenced(up[j].m3u8Content) : SegmentStored(j, name)
    /\ \A i \in 1..Len(getPlaylistUrls(j)) :
         \A o \in objectStore :
           o.key = <<j, getPlaylistUrls(j)[i].playlistUrl.name>>
             => \A name \in Referenced(o.body) : SegmentStored(j, name)

\* C5: once the ingestion of a job has failed (a fatal client error before
\* the torrent was added, or a torrent without a video file), the status is
\* the failure message with the error text and the result list is empty.
C5_IngestionFailure ==
  \A j \in JobIds :
    /\ (clientErrored[j] /\ ~Added(j))
         => /\ getStatusById(j) = StError(MsgWt)
            /\ getPlaylistUrls(j) = <<>>
    /\ (Added(j) /\ QualifyingCount(torrent[j]) = 0)
         => /\ getStatusById(j) = StError(MsgNoVideo)
            /\ getPlaylistUrls(j) = <<>>

\* C5 witness: the torrent of a job held no video file and the job failed.
C5_Witness ==
  \E j \in JobIds :
    /\ Added(j) /\ QualifyingCount(torrent[j]) = 0
    /\ getStatusById(j) = StError(MsgNoVideo)

\* C6 (as claimed): destroy is never called twice for a job, and a job whose
\* torrent was added has a terminal status only after destroy was called.
C6_DestroyedExactlyOnce ==
  \A j \in JobIds :
    /\ destroyCalls[j] <= 1
    /\ (Added(j) /\ IsTerminal(getStatusById(j))) => destroyCalls[j] = 1

\* C7 (as claimed): from a state in which a job's status is a failure
\* message, no step gives the job a status that is not a failure message,
\* appends a result, goes on to another file or starts an upload.
C7_FailedIsTerminal ==
  [][ \A j \in JobIds :
        IsFailure(getStatusById(j))
          => /\ j \in DOMAIN processStatus' /\ IsFailure(processStatus'[j])
             /\ j \in DOMAIN playlistUrlsMap' => playlistUrlsMap'[j] = getPlaylistUrls(j)
             /\ fileIdx'[j] = fileIdx[j]
             /\ pc'[j] \in {"uploadingTs", "uploadingM3u8"} => pc[j] = pc'[j] ]_vars

\* C8 (as claimed): a job id is answered only for a magnet link or a torrent
\* file; any other request is refused without a job.
C8_InputValidation ==
  \A j \in JobIds :
    /\ Issued(j) => ValidInput(request[j])
    /\ (pc[j] # "idle" /\ ~ValidInput(request[j]))
         => /\ promise[j] = "none"
            /\ j \notin DOMAIN processStatus

\* C9: from the handling of a magnet-link request on, and so already while
\* the torrent is being added, the job id has been answered.
C9_NonBlockingSubmit ==
  \A j \in JobIds :
    (pc[j] # "idle" /\ StartsWith(request[j].magnet, MagnetPrefix))
      => Issued(j)

\* C9 witness: the id of a magnet-link job is answered and the torrent is
\* not yet added.
C9_Witness ==
  \E j \in JobIds :
    /\ StartsWith(request[j].magnet, MagnetPrefix)
    /\ pc[j] = "adding" /\ Issued(j)

C11_ResultContent ==
  \A j \in JobIds :
    \A i \in 1..Len(getPlaylistUrls(j)) :
      LET entry == getPlaylistUrls(j)[i]
      IN  /\ \E k \in 1..Len(torrent[j]) :
               IsVideoFile(torrent[j][k]) /\ entry.fileName = torrent[j][k]
          /\ entry.playlistUrl.bucket = "hls"
          /\ entry.playlistUrl.id = j
          /\ EndsWith(entry.playlistUrl.name, M3u8Ext)
          /\ PlaylistStored(j, entry.playlistUrl.name)

C13_UnknownIdReads ==
  [][ reply'.route \in {"status", "playlist"}
        => /\ processStatus' = processStatus
           /\ playlistUrlsMap' = playlistUrlsMap
           /\ NeverIssued(reply'.param)
                => /\ ~reply'.inherited
                   /\ reply'.route = "status" => reply'.status = UnknownStatus
                   /\ reply'.route = "playlist" => reply'.playlistUrls = <<>> ]_vars

\* C14 (as claimed): rewriting a text with a mapping none of whose old names
\* occurs literally in the text returns the text.
C14_RewriteNoOp ==
  (/\ rewrite.done
   /\ \A i \in 1..Len(rewrite.mapping) :
        ~OccursLiterally(rewrite.text, rewrite.mapping[i][1]))
    => rewrite.out = rewrite.text

\* C15: when every external call eventually produces one of its events, a
\* job whose id was answered eventually has a terminal status and keeps a
\* terminal status from then on.
C15_JobLiveness ==
  \A j \in JobIds :
    [](Issued(j) => <>[]IsTerminal(getStatusById(j)))

\* C15 witness: an accepted job has run through its files and its status is
\* the completion message.
C15_Witness ==
  \E j \in JobIds :
    Issued(j) /\ pc[j] = "returned" /\ getStatusById(j) = StComplete

\* C16: a step of job j (its request, a status update, a result append,
\* its completion or failure) leaves the status entry and the result list of
\* every other job as they were, however the jobs interleave.
C16_RegistryOwnership ==
  [][ \A j \in JobIds :
        StepOfJob(j)
          => \A k \in JobIds \ {j} :
               /\ (k \in DOMAIN processStatus') = (k \in DOMAIN processStatus)
               /\ getStatusById(k)' = getStatusById(k)
               /\ (k \in DOMAIN playlistUrlsMap') = (k \in DOMAIN playlistUrlsMap)
               /\ getPlaylistUrls(k)' = getPlaylistUrls(k) ]_vars

\* C16 witness: one job has appended its result and is complete while another
\* job is still processing its file under its own status.
C16_Witness ==
  \E j, k \in JobIds :
    /\ j # k
    /\ Len(getPlaylistUrls(j)) = 1 /\ getStatusById(j) = StComplete
    /\ pc[k] \in Processing /\ getStatusById(k) = StProcessingFile(CurrentFile(k))
    /\ getPlaylistUrls(k) = <<>>

\* C17: the step in which a segment upload or the playlist upload of a job
\* fails leaves the job with no upload in flight, appends no result and
\* leaves the stored objects as they are; and from then on no step starts an
\* upload for the job, appends a result or changes the objects under its
\* prefix.
C17_UploadFailureAborts ==
  [][ \A j \in JobIds :
        /\ (/\ pc[j] \in Uploading
            /\ pc'[j] = "failed"
            /\ getStatusById(j)' = StError(MsgS3))
             => /\ objectStore' = objectStore
                /\ getPlaylistUrls(j)' = getPlaylistUrls(j)
        /\ pc[j] = "failed"
             => /\ pc'[j] = "failed"
                /\ getPlaylistUrls(j)' = getPlaylistUrls(j)
                /\ ObjectsOf(j)' = ObjectsOf(j) ]_vars

\* C17 witness: an upload of a job failed after a segment of the same file
\* was stored; the segment is in the bucket and the job has no result.
C17_Witness ==
  \E j \in JobIds :
    /\ pc[j] = "failed" /\ getStatusById(j) = StError(MsgS3)
    /\ \E o \in ObjectsOf(j) : o.contentType = "video/mp2t"
    /\ getPlaylistUrls(j) = <<>>

C19_ResultVisibility ==
  [][ \A j \in JobIds :
        /\ \A i \in 1..Len(getPlaylistUrls(j)') :
             \E o \in objectStore' :
               /\ o.key = <<j, getPlaylistUrls(j)'[i].playlistUrl.name>>
               /\ o.contentType = "application/vnd.apple.mpegurl"
        /\ getPlaylistUrls(j)' # getPlaylistUrls(j)
             => /\ UploadM3u8(j, TRUE)
                /\ Len(up[j].mapping) = Len(up[j].tsFiles)
                /\ \A n \in 1..Len(up[j].mapping) :
                     SegmentStored(j, up[j].mapping[n][2])
                /\ getPlaylistUrls(j)'[Len(getPlaylistUrls(j)')].playlistUrl
                     = PlaylistUrl(j, up[j].name)
        /\ pc'[j] \in Processing => Len(getPlaylistUrls(j)') < fileIdx'[j] ]_vars

\* C19 witness: a job's list shows the first file's result while the second
\* file's playlist is being uploaded and is not in the bucket.
C19_Witness ==
  \E j \in JobIds :
    /\ Len(getPlaylistUrls(j)) = 1 /\ fileIdx[j] = 2
    /\ pc[j] = "uploadingM3u8" /\ ~PlaylistStored(j, up[j].name)

\* C20 (as claimed): in the single-result server a job record is created as
\* {Processing, link null} and changes at most once, from Processing to Done
\* or Error; a record is Done exactly when its link is not null; and a GET
\* /status request changes no record and answers 404 for an id that has no
\* record.
C20_SingleResultJobMap ==
  [][ /\ \A i \in JobIds :
           /\ (i \notin DOMAIN jobs /\ i \in DOMAIN jobs') => jobs'[i] = ProcessingJob
           /\ i \in DOMAIN jobs
                => /\ i \in DOMAIN jobs'
                   /\ jobs'[i] # jobs[i]
                        => /\ jobs[i].status = "Processing"
                           /\ jobs'[i].status \in {"Done", "Error"}
           /\ i \in DOMAIN jobs'
                => (jobs'[i].status = "Done" <=> jobs'[i].link # "null")
      /\ reply'.route = "jobstatus"
           => /\ jobs' = jobs
              /\ (reply'.param.kind = "property" \/ reply'.param.uuid \notin DOMAIN jobs)
                   => reply'.code = "404" ]_vars

====
